---- MODULE Spec2Model ----
(***************************************************************************)
(* PPTX -> slide records -> Markdown -> HTML pipeline of demo/slides:      *)
(*   extract_to_staging.py  (staged extractor and Markdown writer)         *)
(*   generate_decks.py      (batch generator: in-memory extract + render)  *)
(*   extract_pptx.py        (preview extractor)                            *)
(*   render_deck.py         (Markdown parser, themes, renderer)            *)
(* Strings are sequences of one-character strings, so that prefix tests,   *)
(* trimming, slicing, joining and line splitting are computed as the code  *)
(* computes them.                                                          *)
(***************************************************************************)
EXTENDS Integers, Sequences, FiniteSets, TLC

VARIABLES
    namelist,            \* z.namelist(): archive entry names in enumeration order
    ran,                 \* which slide locators have run on namelist
    staged_slides,       \* extract_to_staging.py: slides after the sort
    batch_slide_files,   \* generate_decks.py: slide_files after the sort
    preview_slide_files, \* extract_pptx.py: slide_files after the sort
    archive,             \* the PPTX given to the extractors: listing and entry payloads
    staging,             \* the staging directory: its directories and files
    staged,              \* extract_to_staging.py: per slide, slide_images and slide_text_lines
    slides_data,         \* generate_decks.py: what extract_slides returned
    calls,               \* how often each extractor has returned
    records,             \* the Slide Records handed to the Markdown writer
    md_path,             \* the path of the intermediate file
    md_text,             \* the text of the intermediate file
    lines,               \* parse_slides_md: lines
    pos,                 \* parse_slides_md: the next line of the loop
    slides,              \* parse_slides_md: slides
    current_slide,       \* parse_slides_md: current_slide, <<>> for None
    section,             \* parse_slides_md: section, "none" for None
    rel_base,            \* parse_slides_md: rel_base
    phase,               \* where the write-then-parse run stands
    deck,                \* the Slide Records given to the renderers
    theme,               \* render_deck.generate_html: theme
    html,                \* render_deck.generate_html: the document written, <<>> before
    batch_html,          \* generate_decks.generate_html: the document written, <<>> before
    pptx_files,          \* what each deck's source path holds
    output_files,        \* what each deck's output path holds, <<>> when absent
    output_before,       \* output_files when the batch run started
    deck_index,          \* generate_decks.__main__: the deck the loop handles next
    extracted,           \* per deck handled, <<what extract_slides returned>>
    preview              \* what extract_pptx_content returned, <<>> before the call

locVars == <<namelist, ran, staged_slides, batch_slide_files, preview_slide_files>>

exVars == <<archive, staging, staged, slides_data, calls>>

mdVars == <<records, md_path, md_text, lines, pos, slides, current_slide, section,
            rel_base, phase>>

rnVars == <<deck, theme, html, batch_html>>

btVars == <<pptx_files, output_files, output_before, deck_index, extracted, preview>>

vars == <<locVars, exVars, mdVars, rnVars, btVars>>

\* a directory tree: the relative paths of its directories and its files' contents
EmptyTree == [dirs |-> {}, files |-> <<>>]

\* the parts of the state a run of one component leaves alone
LocIdle ==
    /\ namelist = <<>>
    /\ ran = {}
    /\ staged_slides = <<>>
    /\ batch_slide_files = <<>>
    /\ preview_slide_files = <<>>

ExIdle ==
    /\ archive = [names |-> <<>>, paragraphs |-> <<>>, targets |-> <<>>]
    /\ staging = EmptyTree
    /\ staged = <<>>
    /\ slides_data = <<>>
    /\ calls = [staged |-> 0, batch |-> 0]

MdIdle ==
    /\ records = <<>>
    /\ md_path = <<>>
    /\ md_text = <<>>
    /\ lines = <<>>
    /\ pos = 0
    /\ slides = <<>>
    /\ current_slide = <<>>
    /\ section = "none"
    /\ rel_base = <<>>
    /\ phase = "idle"

RnIdle ==
    /\ deck = <<>>
    /\ theme = "cyberpunk"
    /\ html = <<>>
    /\ batch_html = <<>>

BtIdle ==
    /\ pptx_files = <<>>
    /\ output_files = <<>>
    /\ output_before = <<>>
    /\ deck_index = 0
    /\ extracted = <<>>
    /\ preview = <<>>

----------------------------------------------------------------------------
(* Bounds of the model *)

MaxEntries == 3      \* entries of an archive listing in the locator runs

MaxSlides == 2       \* slide parts of an archive given to the extractors

MaxParagraphs == 2   \* paragraphs of a slide

MaxTargets == 2      \* Target attributes of a relationship file

MaxRuns == 2         \* runs of the staged extractor on one output directory

MaxRecords == 2      \* Slide Records written to one intermediate file

MaxImages == 2       \* images of a Slide Record

MaxLines == 2        \* content lines of a Slide Record

MaxInputLines == 4   \* lines of a file given to parse_slides_md as it is

----------------------------------------------------------------------------
(* Characters and string primitives (Python str / re / os.path) *)

Digits == {"0", "1", "2", "3", "4", "5", "6", "7", "8", "9"}

Letters ==
    {"a", "b", "c", "d", "e", "f", "g", "h", "i", "j", "k", "l", "m",
     "n", "o", "p", "q", "r", "s", "t", "u", "v", "w", "x", "y", "z",
     "A", "B", "C", "D", "E", "F", "G", "H", "I", "J", "K", "L", "M",
     "N", "O", "P", "Q", "R", "S", "T", "U", "V", "W", "X", "Y", "Z"}

\* the characters str.strip() removes that occur in the model
Whitespace == {" ", "\n", "\t"}

DigitValue(c) ==
    CASE c = "0" -> 0 [] c = "1" -> 1 [] c = "2" -> 2 [] c = "3" -> 3
      [] c = "4" -> 4 [] c = "5" -> 5 [] c = "6" -> 6 [] c = "7" -> 7
      [] c = "8" -> 8 [] c = "9" -> 9

DigitChar(d) ==
    CASE d = 0 -> "0" [] d = 1 -> "1" [] d = 2 -> "2" [] d = 3 -> "3"
      [] d = 4 -> "4" [] d = 5 -> "5" [] d = 6 -> "6" [] d = 7 -> "7"
      [] d = 8 -> "8" [] d = 9 -> "9"

Min(S) == CHOOSE x \in S : \A y \in S : x <= y

Max(S) == CHOOSE x \in S : \A y \in S : y <= x

\* s[i:] starts with p  (s.startswith(p) for i = 1)
StartsWithAt(s, p, i) ==
    /\ i + Len(p) - 1 <= Len(s)
    /\ SubSeq(s, i, i + Len(p) - 1) = p

StartsWith(s, p) == StartsWithAt(s, p, 1)

EndsWith(s, p) ==
    /\ Len(p) <= Len(s)
    /\ SubSeq(s, Len(s) - Len(p) + 1, Len(s)) = p

\* the positions at which p occurs in s
Occurrences(s, p) == {i \in 1..(Len(s) + 1) : StartsWithAt(s, p, i)}

\* p in s  (the empty string occurs in every string)
Contains(s, p) == Occurrences(s, p) # {}

\* length of the longest run of digits that starts at position i (\d+ is greedy)
DigitRun(s, i) ==
    Max({k \in 0..(Len(s) - i + 1) : \A j \in i..(i + k - 1) : s[j] \in Digits})

\* int(digits)
RECURSIVE ParseInt(_)
ParseInt(ds) ==
    IF ds = <<>> THEN 0
    ELSE 10 * ParseInt(SubSeq(ds, 1, Len(ds) - 1)) + DigitValue(ds[Len(ds)])

\* str(n) for n >= 0
RECURSIVE IntToStr(_)
IntToStr(n) ==
    IF n < 10 THEN <<DigitChar(n)>>
    ELSE Append(IntToStr(n \div 10), DigitChar(n % 10))

\* [x for x in seq if Test(x)]
RECURSIVE SelectIn(_, _)
SelectIn(seq, S) ==
    IF seq = <<>> THEN <<>>
    ELSE (IF Head(seq) \in S THEN <<Head(seq)>> ELSE <<>>) \o SelectIn(Tail(seq), S)

\* list.sort(key=...): stable, ascending; keys[i] is the key of items[i]
RECURSIVE InsertByKey(_, _, _, _)
InsertByKey(items, keys, x, k) ==
    IF items = <<>> THEN <<<<x>>, <<k>>>>
    ELSE IF k < Head(keys)
         THEN <<<<x>> \o items, <<k>> \o keys>>
         ELSE LET rest == InsertByKey(Tail(items), Tail(keys), x, k)
              IN  <<<<Head(items)>> \o rest[1], <<Head(keys)>> \o rest[2]>>

RECURSIVE SortPairs(_, _)
SortPairs(items, keys) ==
    IF items = <<>> THEN <<<<>>, <<>>>>
    ELSE LET n    == Len(items)
             init == SortPairs(SubSeq(items, 1, n - 1), SubSeq(keys, 1, n - 1))
         IN  InsertByKey(init[1], init[2], items[n], keys[n])

StableSort(items, keys) == SortPairs(items, keys)[1]

----------------------------------------------------------------------------
(* String literals of the sources *)

PptSlidesSlide == <<"p", "p", "t", "/", "s", "l", "i", "d", "e", "s", "/", "s", "l", "i", "d", "e">>
PptSlides == <<"p", "p", "t", "/", "s", "l", "i", "d", "e", "s", "/">>
PptSlidesRels == <<"p", "p", "t", "/", "s", "l", "i", "d", "e", "s", "/", "_", "r", "e", "l", "s", "/">>
PptMedia == <<"p", "p", "t", "/", "m", "e", "d", "i", "a", "/">>
DotXml == <<".", "x", "m", "l">>
DotRels == <<".", "r", "e", "l", "s">>
SlideWord == <<"s", "l", "i", "d", "e">>

----------------------------------------------------------------------------
(* Slide locators *)

\* re.match(r'ppt/slides/slide\d+\.xml', f): anchored at the start only
StagedSlideMatch(f) ==
    /\ StartsWith(f, PptSlidesSlide)
    /\ LET d == DigitRun(f, Len(PptSlidesSlide) + 1)
       IN  /\ d >= 1
           /\ StartsWithAt(f, DotXml, Len(PptSlidesSlide) + 1 + d)

\* int(re.search(r'slide(\d+)', x).group(1)): the leftmost "slide" followed by a digit
StagedSortKeyFirstDigit(x) ==
    LET i == Min({j \in Occurrences(x, SlideWord) : DigitRun(x, j + Len(SlideWord)) >= 1})
    IN  ParseInt(SubSeq(x, i + Len(SlideWord), i + Len(SlideWord)))

StagedSortKey(x) ==
    LET i == Min({j \in Occurrences(x, SlideWord) : DigitRun(x, j + Len(SlideWord)) >= 1})
        d == DigitRun(x, i + Len(SlideWord))
    IN  ParseInt(SubSeq(x, i + Len(SlideWord), i + Len(SlideWord) + d - 1))

\* f.startswith('ppt/slides/slide') and f.endswith('.xml')
BatchSlideMatch(f) == StartsWith(f, PptSlidesSlide) /\ EndsWith(f, DotXml)

\* the positions where r'slide(\d+)\.xml' matches
NumberedAt(filename) ==
    {j \in Occurrences(filename, SlideWord) :
        LET d == DigitRun(filename, j + Len(SlideWord))
        IN  d >= 1 /\ StartsWithAt(filename, DotXml, j + Len(SlideWord) + d)}

get_slide_number_first_digit(filename) ==
    IF NumberedAt(filename) = {} THEN 0
    ELSE LET i == Min(NumberedAt(filename))
         IN  ParseInt(SubSeq(filename, i + Len(SlideWord), i + Len(SlideWord)))

get_slide_number_unmatched_one(filename) ==
    IF NumberedAt(filename) = {} THEN 1
    ELSE LET i == Min(NumberedAt(filename))
             d == DigitRun(filename, i + Len(SlideWord))
         IN  ParseInt(SubSeq(filename, i + Len(SlideWord), i + Len(SlideWord) + d - 1))

\* match = re.search(r'slide(\d+)\.xml', filename); int(match.group(1)) if match else 0
get_slide_number(filename) ==
    IF NumberedAt(filename) = {} THEN 0
    ELSE LET i == Min(NumberedAt(filename))
             d == DigitRun(filename, i + Len(SlideWord))
         IN  ParseInt(SubSeq(filename, i + Len(SlideWord), i + Len(SlideWord) + d - 1))

\* extract_to_staging.py: slides = [...]; slides.sort(key=...)
StagedLocate(names) ==
    LET found == SelectIn(names, {f \in {names[i] : i \in 1..Len(names)} : StagedSlideMatch(f)})
    IN  StableSort(found, [i \in 1..Len(found) |-> StagedSortKey(found[i])])

\* generate_decks.py: slide_files = [...]; slide_files.sort(key=get_slide_number)
BatchLocate(names) ==
    LET slide_files == SelectIn(names, {f \in {names[i] : i \in 1..Len(names)} : BatchSlideMatch(f)})
    IN  StableSort(slide_files, [i \in 1..Len(slide_files) |-> get_slide_number(slide_files[i])])

\* extract_pptx.py: the same comprehension and the same key
PreviewLocate(names) ==
    LET slide_files == SelectIn(names, {f \in {names[i] : i \in 1..Len(names)} : BatchSlideMatch(f)})
    IN  StableSort(slide_files, [i \in 1..Len(slide_files) |-> get_slide_number(slide_files[i])])

----------------------------------------------------------------------------
(* Archive listings the locators are run on *)

SlideName(digits, tail) == PptSlidesSlide \o digits \o DotXml \o tail

EntryNames ==
    { SlideName(<<"1">>, <<>>),
      SlideName(<<"2">>, <<>>),
      SlideName(<<"1", "0">>, <<>>),
      SlideName(<<"0", "2">>, <<>>),                     \* index 2 again
      SlideName(<<>>, <<>>),                             \* ppt/slides/slide.xml
      SlideName(<<"1", "a">>, <<>>),                     \* ppt/slides/slide1a.xml
      SlideName(<<"3">>, <<".", "b", "a", "k">>),        \* ppt/slides/slide3.xml.bak
      PptSlidesRels \o SlideWord \o <<"1">> \o DotXml \o DotRels,
      PptMedia \o <<"a", ".", "p", "n", "g">> }

\* listings without repeated names, in every enumeration order
Listings ==
    UNION { {s \in [1..n -> EntryNames] : \A i, j \in 1..n : i # j => s[i] # s[j]}
            : n \in 0..MaxEntries }

LocInit ==
    /\ namelist \in Listings
    /\ ran = {}
    /\ staged_slides = <<>>
    /\ batch_slide_files = <<>>
    /\ preview_slide_files = <<>>
    /\ ExIdle
    /\ MdIdle
    /\ RnIdle
    /\ BtIdle

RunStagedLocator ==
    /\ "staged" \notin ran
    /\ staged_slides' = StagedLocate(namelist)
    /\ ran' = ran \cup {"staged"}
    /\ UNCHANGED <<namelist, batch_slide_files, preview_slide_files>>
    /\ UNCHANGED <<exVars, mdVars, rnVars, btVars>>

RunBatchLocator ==
    /\ "batch" \notin ran
    /\ batch_slide_files' = BatchLocate(namelist)
    /\ ran' = ran \cup {"batch"}
    /\ UNCHANGED <<namelist, staged_slides, preview_slide_files>>
    /\ UNCHANGED <<exVars, mdVars, rnVars, btVars>>

RunPreviewLocator ==
    /\ "preview" \notin ran
    /\ preview_slide_files' = PreviewLocate(namelist)
    /\ ran' = ran \cup {"preview"}
    /\ UNCHANGED <<namelist, staged_slides, batch_slide_files>>
    /\ UNCHANGED <<exVars, mdVars, rnVars, btVars>>

LocNext == RunStagedLocator \/ RunBatchLocator \/ RunPreviewLocator

SpecLocator == LocInit /\ [][LocNext]_vars

----------------------------------------------------------------------------
(* Claims about the slide locators *)

\* the name is exactly ppt/slides/slide<N>.xml, N one or more decimal digits
IsNumberedSlideName(f) ==
    /\ Len(f) > Len(PptSlidesSlide) + Len(DotXml)
    /\ StartsWith(f, PptSlidesSlide)
    /\ EndsWith(f, DotXml)
    /\ \A j \in (Len(PptSlidesSlide) + 1)..(Len(f) - Len(DotXml)) : f[j] \in Digits

\* the integer N of a name ppt/slides/slide<N>.xml
SlideIndexOf(f) ==
    ParseInt(SubSeq(f, Len(PptSlidesSlide) + 1, Len(f) - Len(DotXml)))

Range(seq) == {seq[i] : i \in 1..Len(seq)}

NumberedIn(seq) == SelectIn(seq, {f \in Range(seq) : IsNumberedSlideName(f)})

AscendingByIndex(seq) ==
    \A i, j \in 1..Len(seq) : i < j => SlideIndexOf(seq[i]) <= SlideIndexOf(seq[j])

\* listings hold no name twice, so a permutation is the same set at the same length
IsPermutationOf(a, b) == Range(a) = Range(b) /\ Len(a) = Len(b)

LocatorResult(loc) ==
    CASE loc = "staged"  -> staged_slides
      [] loc = "batch"   -> batch_slide_files
      [] loc = "preview" -> preview_slide_files

\* C1 as stated: every locator returns exactly the entries named
\* ppt/slides/slide<N>.xml, each once, in ascending numeric order of N.
C1_ExactlyNumberedEntries ==
    \A loc \in ran :
        /\ IsPermutationOf(LocatorResult(loc), NumberedIn(namelist))
        /\ AscendingByIndex(LocatorResult(loc))

\* C1 amended: among the entries a locator returns, those named
\* ppt/slides/slide<N>.xml are all the listing's entries of that form, each once,
\* in ascending numeric order of N (slide2 before slide10); whatever else is
\* returned is a listing entry whose name begins with ppt/slides/slide.
C1_NumberedEntriesAscending ==
    \A loc \in ran :
        /\ IsPermutationOf(NumberedIn(LocatorResult(loc)), NumberedIn(namelist))
        /\ AscendingByIndex(NumberedIn(LocatorResult(loc)))
        /\ \A f \in Range(LocatorResult(loc)) :
               f \in Range(namelist) /\ StartsWith(f, PptSlidesSlide)

\* all three locators ran on a listing that enumerates slide10 before slide2
C1_Witness ==
    /\ ran = {"staged", "batch", "preview"}
    /\ \E i, j \in 1..Len(namelist) :
           /\ i < j
           /\ namelist[i] = SlideName(<<"1", "0">>, <<>>)
           /\ namelist[j] = SlideName(<<"2">>, <<>>)
    /\ \A loc \in ran :
           LocatorResult(loc) = <<SlideName(<<"2">>, <<>>), SlideName(<<"1", "0">>, <<>>)>>

\* the name begins ppt/slides/slide and ends .xml with no integer in between
IsUnnumberedSlideName(f) ==
    /\ StartsWith(f, PptSlidesSlide)
    /\ EndsWith(f, DotXml)
    /\ ~IsNumberedSlideName(f)

\* the index the claim gives an entry: N for ppt/slides/slide<N>.xml, 0 without integer
ClaimedIndex(f) == IF IsNumberedSlideName(f) THEN SlideIndexOf(f) ELSE 0

PositionIn(seq, f) == CHOOSE i \in 1..Len(seq) : seq[i] = f

\* unnumbered entries come before every entry of positive index
UnnumberedFirst(seq) ==
    \A i, j \in 1..Len(seq) :
        (/\ IsUnnumberedSlideName(seq[i])
         /\ IsNumberedSlideName(seq[j])
         /\ SlideIndexOf(seq[j]) > 0) => i < j

\* entries of equal index stand in the order the listing enumerates them
TiesInListingOrder(seq) ==
    \A i, j \in 1..Len(seq) :
        (/\ i < j
         /\ IsNumberedSlideName(seq[i]) \/ IsUnnumberedSlideName(seq[i])
         /\ IsNumberedSlideName(seq[j]) \/ IsUnnumberedSlideName(seq[j])
         /\ ClaimedIndex(seq[i]) = ClaimedIndex(seq[j]))
            => PositionIn(namelist, seq[i]) < PositionIn(namelist, seq[j])

\* C12 as stated: every locator includes each entry named ppt/slides/...xml
\* without integer, sorts it as index 0 before the entries of positive index, and
\* keeps entries of equal index in the listing's order.
C12_UnnumberedIncludedFirst ==
    \A loc \in ran :
        /\ \A f \in Range(namelist) :
               IsUnnumberedSlideName(f) => f \in Range(LocatorResult(loc))
        /\ UnnumberedFirst(LocatorResult(loc))
        /\ TiesInListingOrder(LocatorResult(loc))

\* C12 amended: the batch and preview locators include each entry that begins
\* ppt/slides/slide and ends .xml without integer, before every entry of positive
\* index; the staged locator returns none of them; in all three, entries of equal
\* index keep the listing's order.
C12_UnnumberedFirstInBatchAndPreview ==
    \A loc \in ran :
        /\ \A f \in Range(namelist) :
               IsUnnumberedSlideName(f) =>
                   (f \in Range(LocatorResult(loc)) <=> loc \in {"batch", "preview"})
        /\ UnnumberedFirst(LocatorResult(loc))
        /\ TiesInListingOrder(LocatorResult(loc))

\* all three locators ran on a listing that enumerates slide1.xml, then two
\* entries without integer
C12_Witness ==
    /\ ran = {"staged", "batch", "preview"}
    /\ namelist = <<SlideName(<<"1">>, <<>>), SlideName(<<"1", "a">>, <<>>), SlideName(<<>>, <<>>)>>
    /\ batch_slide_files =
           <<SlideName(<<"1", "a">>, <<>>), SlideName(<<>>, <<>>), SlideName(<<"1">>, <<>>)>>
    /\ staged_slides = <<SlideName(<<"1">>, <<>>)>>

----------------------------------------------------------------------------
(* Text extraction, relationship resolution, media extraction *)

MediaMarker == <<"m", "e", "d", "i", "a", "/">>
ImagesDirName == <<"i", "m", "a", "g", "e", "s">>
ImagesPrefix == <<"i", "m", "a", "g", "e", "s", "/">>
SlidesMdName == <<"s", "l", "i", "d", "e", "s", ".", "m", "d">>

\* str.strip()
RECURSIVE LStrip(_)
LStrip(s) == IF s # <<>> /\ Head(s) \in Whitespace THEN LStrip(Tail(s)) ELSE s

RECURSIVE RStrip(_)
RStrip(s) ==
    IF s # <<>> /\ s[Len(s)] \in Whitespace THEN RStrip(SubSeq(s, 1, Len(s) - 1)) ELSE s

Strip(s) == RStrip(LStrip(s))

\* "".join(texts)
RECURSIVE Concat(_)
Concat(texts) == IF texts = <<>> THEN <<>> ELSE Head(texts) \o Concat(Tail(texts))

\* re.search(r'[a-zA-Z0-9]', line)
HasAlnum(line) == \E i \in 1..Len(line) : line[i] \in Letters \cup Digits

\* the string literal tested at extract_to_staging.py:68 is '' (nothing between the quotes)
ReplacementLiteral == <<>>

StagedKeepsNonEmpty(line) == line # <<>>

\* if line and '' not in line: if re.search(r'[a-zA-Z0-9]', line): append
StagedKeeps(line) ==
    /\ line # <<>>
    /\ ~Contains(line, ReplacementLiteral)
    /\ HasAlnum(line)

\* slide_text_lines of one slide; a paragraph is the list of its <a:t> texts
RECURSIVE StagedTextLines(_)
StagedTextLines(paragraphs) ==
    IF paragraphs = <<>> THEN <<>>
    ELSE LET texts == Head(paragraphs)
             line  == Strip(Concat(texts))
         IN  (IF texts # <<>> /\ StagedKeeps(line) THEN <<line>> ELSE <<>>)
                 \o StagedTextLines(Tail(paragraphs))

\* generate_decks.py: if full_line: slide_lines.append(full_line)
BatchKeeps(full_line) == full_line # <<>>

RECURSIVE BatchSlideLines(_)
BatchSlideLines(paragraphs) ==
    IF paragraphs = <<>> THEN <<>>
    ELSE LET texts     == Head(paragraphs)
             full_line == Strip(Concat(texts))
         IN  (IF texts # <<>> /\ BatchKeeps(full_line) THEN <<full_line>> ELSE <<>>)
                 \o BatchSlideLines(Tail(paragraphs))

\* os.path.basename(p)
Basename(p) ==
    LET slashes == {i \in 1..Len(p) : p[i] = "/"}
    IN  IF slashes = {} THEN p ELSE SubSeq(p, Max(slashes) + 1, Len(p))

\* s.replace(old, new), old not empty
RECURSIVE Replace(_, _, _)
Replace(s, old, new) ==
    IF s = <<>> THEN <<>>
    ELSE IF StartsWith(s, old)
         THEN new \o Replace(SubSeq(s, Len(old) + 1, Len(s)), old, new)
         ELSE <<Head(s)>> \o Replace(Tail(s), old, new)

\* open(path, "w").write(content) below the staging directory
WriteFile(tree, path, content) ==
    [tree EXCEPT !.files =
        [q \in (DOMAIN tree.files) \cup {path} |-> IF q = path THEN content ELSE tree.files[q]]]

\* os.path.exists(os.path.join(staging_dir, path)): a file, a directory, or a
\* directory named with a trailing separator
PathExists(tree, path) ==
    \/ path \in DOMAIN tree.files
    \/ path \in tree.dirs
    \/ /\ path # <<>>
       /\ path[Len(path)] = "/"
       /\ SubSeq(path, 1, Len(path) - 1) \in tree.dirs

FreshStagingWithoutRmtree(tree) ==
    [tree EXCEPT !.dirs = @ \cup {<<>>, ImagesDirName}]

\* if os.path.exists(staging_dir): shutil.rmtree(staging_dir)
\* os.makedirs(os.path.join(staging_dir, "images"))
FreshStaging(tree) ==
    LET cleared == IF PathExists(tree, <<>>) THEN EmptyTree ELSE tree
    IN  [cleared EXCEPT !.dirs = @ \cup {<<>>, ImagesDirName}]

\* z.read(f): every entry has bytes of its own
ReadEntry(f) == <<"bytes of">> \o f

\* step 1: every entry under ppt/media/ is written to images/<basename>
RECURSIVE ExtractMedia(_, _)
ExtractMedia(names, tree) ==
    IF names = <<>> THEN tree
    ELSE LET f == Head(names)
         IN  IF StartsWith(f, PptMedia)
             THEN ExtractMedia(Tail(names),
                      WriteFile(tree, ImagesDirName \o <<"/">> \o Basename(f), ReadEntry(f)))
             ELSE ExtractMedia(Tail(names), tree)

\* media_map: archive path -> filename, for every entry under ppt/media/
MediaMap(names) ==
    [f \in {g \in {names[i] : i \in 1..Len(names)} : StartsWith(g, PptMedia)} |-> Basename(f)]

\* slide_images of one slide, from the Target attributes of its relationship file
RECURSIVE SlideImages(_, _)
SlideImages(targets, tree) ==
    IF targets = <<>> THEN <<>>
    ELSE LET tg             == Head(targets)
             media_filename == Basename(tg)
         IN  (IF /\ Contains(tg, MediaMarker)
                 /\ PathExists(tree, ImagesDirName \o <<"/">> \o media_filename)
              THEN <<ImagesPrefix \o media_filename>>
              ELSE <<>>) \o SlideImages(Tail(targets), tree)

\* rels_file = slide_file.replace("ppt/slides/", "ppt/slides/_rels/") + ".rels"
RelsFileOf(slide_file) == Replace(slide_file, PptSlides, PptSlidesRels) \o DotRels

\* one pass of the loop over the sorted slides: the slide's images and text lines
StagedSlide(arch, tree, slide_file) ==
    LET rels_file == RelsFileOf(slide_file)
    IN  [slide_file       |-> slide_file,
         slide_text_lines |-> StagedTextLines(arch.paragraphs[slide_file]),
         slide_images     |-> IF rels_file \in {arch.names[i] : i \in 1..Len(arch.names)}
                              THEN SlideImages(arch.targets[rels_file], tree)
                              ELSE <<>>]

----------------------------------------------------------------------------
(* The Markdown writer of the staged extractor *)

HeadingLiteral == <<"#", " ", "S", "l", "i", "d", "e", " ">>
ImagesHeading == <<"#", "#", " ", "I", "m", "a", "g", "e", "s">>
ContentHeading == <<"#", "#", " ", "C", "o", "n", "t", "e", "n", "t">>
ImageItemOpen == <<"-", " ", "!", "[", "]", "(">>
ItemPrefix == <<"-", " ">>
SeparatorEntry == <<"\n", "-", "-", "-", "\n">>

MdBlockZeroBased(slide_num, slide_images, slide_text_lines) ==
    <<HeadingLiteral \o IntToStr(slide_num - 1)>>
        \o (IF slide_images # <<>>
            THEN <<ImagesHeading>>
                     \o [k \in 1..Len(slide_images) |-> ImageItemOpen \o slide_images[k] \o <<")">>]
            ELSE <<>>)
        \o <<ContentHeading>>
        \o [k \in 1..Len(slide_text_lines) |-> ItemPrefix \o slide_text_lines[k]]
        \o <<SeparatorEntry>>

\* the md_output entries of one slide: heading, "## Images" and its items when
\* the slide has images, "## Content" and its items, the separator
MdBlock(slide_num, slide_images, slide_text_lines) ==
    <<HeadingLiteral \o IntToStr(slide_num)>>
        \o (IF slide_images # <<>>
            THEN <<ImagesHeading>>
                     \o [k \in 1..Len(slide_images) |-> ImageItemOpen \o slide_images[k] \o <<")">>]
            ELSE <<>>)
        \o <<ContentHeading>>
        \o [k \in 1..Len(slide_text_lines) |-> ItemPrefix \o slide_text_lines[k]]
        \o <<SeparatorEntry>>

\* md_output after the first n slides (slide_num = i + 1)
RECURSIVE MdOutput(_, _)
MdOutput(recs, n) ==
    IF n = 0 THEN <<>>
    ELSE MdOutput(recs, n - 1)
             \o MdBlock(n, recs[n].slide_images, recs[n].slide_text_lines)

\* "\n".join(md_output)
RECURSIVE JoinLines(_)
JoinLines(entries) ==
    IF entries = <<>> THEN <<>>
    ELSE IF Len(entries) = 1 THEN entries[1]
    ELSE entries[1] \o <<"\n">> \o JoinLines(Tail(entries))

\* the text written to slides.md
MdText(recs) == JoinLines(MdOutput(recs, Len(recs)))

\* extract_pptx_to_staging(pptx_path, staging_dir): the directory and the
\* per-slide results it leaves
StagedRun(arch, tree) ==
    LET fresh   == FreshStaging(tree)
        media   == ExtractMedia(arch.names, fresh)
        sorted  == StagedLocate(arch.names)
        recs    == [i \in 1..Len(sorted) |-> StagedSlide(arch, media, sorted[i])]
    IN  [tree    |-> WriteFile(media, SlidesMdName, MdText(recs)),
         records |-> recs]

\* extract_slides(pptx_path) on a readable archive: one list of lines per slide
BatchRun(arch) ==
    LET slide_files == BatchLocate(arch.names)
    IN  [i \in 1..Len(slide_files) |-> BatchSlideLines(arch.paragraphs[slide_files[i]])]

----------------------------------------------------------------------------
(* Archives given to the extractors *)

\* paragraphs as re.findall finds them: each is the list of its <a:t> texts
ParaQ3 == <<<<" ", "Q", "3">>, <<" ", "2", "0", "2", "4", " ">>>>
ParaStars == <<<<"*", "*", "*">>>>
ParaBlank == <<<<" ", " ">>>>
ParaNoText == <<>>

Paragraphs == {ParaQ3, ParaStars, ParaBlank, ParaNoText}

TargetA == <<".", ".", "/", "m", "e", "d", "i", "a", "/", "a", ".", "p", "n", "g">>
TargetB == <<".", ".", "/", "m", "e", "d", "i", "a", "/", "b", ".", "p", "n", "g">>
TargetLayout == <<".", ".", "/", "s", "l", "i", "d", "e", "L", "a", "y", "o", "u", "t", "s", "/", "l", ".", "x", "m", "l">>
TargetMediaDir == <<".", ".", "/", "m", "e", "d", "i", "a", "/">>

Targets == {TargetA, TargetB, TargetLayout, TargetMediaDir}

MediaA == PptMedia \o <<"a", ".", "p", "n", "g">>
MediaB == PptMedia \o <<"b", ".", "p", "n", "g">>

MediaListings == {<<>>, <<MediaA>>, <<MediaA, MediaB>>}

SeqsUpTo(S, n) == UNION {[1..k -> S] : k \in 0..n}

DefaultPayload == [paragraphs |-> <<ParaQ3>>, has_rels |-> TRUE, targets |-> <<TargetA>>]

\* what one slide part and its relationship file hold
SlidePayloads ==
    {[paragraphs |-> ps, has_rels |-> FALSE, targets |-> <<>>] :
        ps \in SeqsUpTo(Paragraphs, MaxParagraphs)}
    \cup {[paragraphs |-> <<ParaQ3>>, has_rels |-> TRUE, targets |-> ts] :
        ts \in SeqsUpTo(Targets, MaxTargets)}

SlidePart(k) == SlideName(IntToStr(k), <<>>)

RelsPart(k) == PptSlidesRels \o SlideWord \o IntToStr(k) \o DotXml \o DotRels

\* the parts of slides n, n-1, ..., 1 in that enumeration order
RECURSIVE SlideParts(_, _)
SlideParts(payloads, n) ==
    IF n = 0 THEN <<>>
    ELSE (IF payloads[n].has_rels THEN <<RelsPart(n)>> ELSE <<>>)
             \o <<SlidePart(n)>> \o SlideParts(payloads, n - 1)

MakeArchive(media, payloads) ==
    LET n == Len(payloads)
    IN  [names      |-> media \o SlideParts(payloads, n),
         paragraphs |-> [f \in {SlidePart(k) : k \in 1..n} |->
                            payloads[CHOOSE k \in 1..n : SlidePart(k) = f].paragraphs],
         targets    |-> [f \in {RelsPart(k) : k \in {j \in 1..n : payloads[j].has_rels}} |->
                            payloads[CHOOSE k \in 1..n : RelsPart(k) = f].targets]]

\* archives of up to MaxSlides slides; one slide holds any payload, the others the default
Archives ==
    {MakeArchive(media, [k \in 1..n |-> IF k = v THEN pl ELSE DefaultPayload]) :
        media \in MediaListings, n \in 1..MaxSlides, v \in 1..MaxSlides, pl \in SlidePayloads}
    \cup {MakeArchive(media, <<>>) : media \in MediaListings}

\* the output directory before the first run: absent, or left by an earlier run
StaleTree ==
    [dirs  |-> {<<>>, ImagesDirName},
     files |-> [q \in {ImagesDirName \o <<"/">> \o <<"b", ".", "p", "n", "g">>, SlidesMdName, <<"o", "l", "d", ".", "t", "x", "t">>} |-> <<"stale">>]]

InitialTrees == {EmptyTree, StaleTree}

ExInit ==
    /\ archive \in Archives
    /\ staging \in InitialTrees
    /\ staged = <<>>
    /\ slides_data = <<>>
    /\ calls = [staged |-> 0, batch |-> 0]
    /\ LocIdle
    /\ MdIdle
    /\ RnIdle
    /\ BtIdle

extract_pptx_to_staging ==
    /\ calls.staged < MaxRuns
    /\ LET r == StagedRun(archive, staging)
       IN  /\ staging' = r.tree
           /\ staged' = r.records
    /\ calls' = [calls EXCEPT !.staged = @ + 1]
    /\ UNCHANGED <<archive, slides_data>>
    /\ UNCHANGED <<locVars, mdVars, rnVars, btVars>>

extract_slides ==
    /\ calls.batch = 0
    /\ slides_data' = BatchRun(archive)
    /\ calls' = [calls EXCEPT !.batch = 1]
    /\ UNCHANGED <<archive, staging, staged>>
    /\ UNCHANGED <<locVars, mdVars, rnVars, btVars>>

ExNext == extract_pptx_to_staging \/ extract_slides

SpecExtract == ExInit /\ [][ExNext]_vars

----------------------------------------------------------------------------
(* Claims about text filtering, image resolution and the written file *)

\* the paragraph's run texts, concatenated without separator and trimmed
ParagraphText(texts) == Strip(Concat(texts))

\* not empty and with at least one ASCII letter or digit
Qualifies(text) == text # <<>> /\ \E i \in 1..Len(text) : text[i] \in Letters \cup Digits

\* the trimmed texts of the qualifying paragraphs, in document order
RECURSIVE QualifyingTexts(_)
QualifyingTexts(paragraphs) ==
    IF paragraphs = <<>> THEN <<>>
    ELSE (IF Qualifies(ParagraphText(Head(paragraphs)))
          THEN <<ParagraphText(Head(paragraphs))>> ELSE <<>>)
             \o QualifyingTexts(Tail(paragraphs))

\* the archives of the model name their slides slide1.xml .. slide<n>.xml
ParagraphsOfSlide(i) == archive.paragraphs[SlidePart(i)]

NoUnqualifiedText(paragraphs, content) ==
    \A j \in 1..Len(paragraphs) :
        ~Qualifies(ParagraphText(paragraphs[j])) => ParagraphText(paragraphs[j]) \notin Range(content)

\* C2: in the staged extractor and in extract_slides alike, a paragraph whose
\* trimmed text is empty or has no ASCII alphanumeric character never appears
\* in its slide's content.
C2_UnqualifiedNeverKept ==
    /\ calls.staged > 0 =>
           \A i \in 1..Len(staged) :
               NoUnqualifiedText(ParagraphsOfSlide(i), staged[i].slide_text_lines)
    /\ calls.batch > 0 =>
           \A i \in 1..Len(slides_data) :
               NoUnqualifiedText(ParagraphsOfSlide(i), slides_data[i])

\* C3: the staged extractor's content of a slide is exactly the trimmed texts of
\* its qualifying paragraphs, in document order.
C3_QualifyingRetainedInOrder ==
    calls.staged > 0 =>
        \A i \in 1..Len(staged) :
            staged[i].slide_text_lines = QualifyingTexts(ParagraphsOfSlide(i))

\* the targets of slide i's relationship file, none when the archive has no such file
TargetsOfSlide(i) ==
    IF RelsPart(i) \in Range(archive.names) THEN archive.targets[RelsPart(i)] ELSE <<>>

ExtractedNames == {MediaMap(archive.names)[f] : f \in DOMAIN MediaMap(archive.names)}

\* images/<basename> of the targets with the media marker whose basename the
\* Media Map holds, in scan order
RECURSIVE ResolvedImages(_)
ResolvedImages(targets) ==
    IF targets = <<>> THEN <<>>
    ELSE (IF /\ Contains(Head(targets), MediaMarker)
             /\ Basename(Head(targets)) \in ExtractedNames
          THEN <<ImagesPrefix \o Basename(Head(targets))>> ELSE <<>>)
             \o ResolvedImages(Tail(targets))

\* C10: a slide's images are images/<basename> for the media targets in scan
\* order, keeping exactly those the Media Map of this archive holds; a slide
\* without relationship file has none.
C10_ImagesFromMediaMap ==
    calls.staged > 0 =>
        \A i \in 1..Len(staged) :
            staged[i].slide_images = ResolvedImages(TargetsOfSlide(i))

\* f.readlines(): the lines of a text, each with its line terminator
RECURSIVE ReadLines(_)
ReadLines(text) ==
    IF text = <<>> THEN <<>>
    ELSE LET breaks == {i \in 1..Len(text) : text[i] = "\n"}
         IN  IF breaks = {} THEN <<text>>
             ELSE <<SubSeq(text, 1, Min(breaks))>>
                      \o ReadLines(SubSeq(text, Min(breaks) + 1, Len(text)))

\* the lines of slides.md without their terminators
WrittenLines ==
    LET raw == ReadLines(staging.files[SlidesMdName])
    IN  [i \in 1..Len(raw) |->
            IF raw[i][Len(raw[i])] = "\n" THEN SubSeq(raw[i], 1, Len(raw[i]) - 1) ELSE raw[i]]

\* the positions of the heading lines among the lines wl
HeadingLinesIn(wl) == {i \in 1..Len(wl) : StartsWith(wl[i], HeadingLiteral)}

\* the position of the k-th heading line
HeadingAt(hl, k) == CHOOSE i \in hl : Cardinality({j \in hl : j <= i}) = k

\* the lines of the block the k-th heading opens: up to the next heading
BlockLines(wl, hl, k) ==
    LET first == HeadingAt(hl, k)
        later == {h \in hl : h > first}
        last  == IF later = {} THEN Len(wl) ELSE Min(later) - 1
    IN  {wl[i] : i \in first..last}

BlocksNumbered(wl, hl) ==
    /\ Cardinality(hl) = Len(staged)
    /\ (Len(staged) > 0 => 1 \in hl)
    /\ \A k \in 1..Len(staged) : wl[HeadingAt(hl, k)] = HeadingLiteral \o IntToStr(k)

SectionsOnlyWhenNonEmpty(wl, hl) ==
    /\ BlocksNumbered(wl, hl)
    /\ \A k \in 1..Len(staged) :
           /\ ImagesHeading \in BlockLines(wl, hl, k) => staged[k].slide_images # <<>>
           /\ ContentHeading \in BlockLines(wl, hl, k) => staged[k].slide_text_lines # <<>>

ContentSectionAlways(wl, hl) ==
    /\ BlocksNumbered(wl, hl)
    /\ \A k \in 1..Len(staged) :
           /\ ImagesHeading \in BlockLines(wl, hl, k) <=> staged[k].slide_images # <<>>
           /\ ContentHeading \in BlockLines(wl, hl, k)

SectionsOnlyWhenNonEmptyIn(wl) == SectionsOnlyWhenNonEmpty(wl, HeadingLinesIn(wl))

ContentSectionAlwaysIn(wl) == ContentSectionAlways(wl, HeadingLinesIn(wl))

\* C6 as stated: each block starts with "# Slide <k>", holds "## Images" only
\* if the slide has an image and "## Content" only if it has a content line.
C6_SectionsOnlyWhenNonEmpty ==
    calls.staged > 0 => SectionsOnlyWhenNonEmptyIn(WrittenLines)

\* C6 amended: each block starts with "# Slide <k>", k the 1-based position;
\* it holds "## Images" exactly if the slide has an image, and it always holds
\* "## Content", also for a slide without content lines.
C6_ContentSectionAlways ==
    calls.staged > 0 => ContentSectionAlwaysIn(WrittenLines)

WitnessBlocks(wl, hl) ==
    /\ ContentHeading \in BlockLines(wl, hl, 1)
    /\ ImagesHeading \in BlockLines(wl, hl, 2)

WitnessBlocksIn(wl) == WitnessBlocks(wl, HeadingLinesIn(wl))

\* two slides written, the first without images and content, the second with an image
C6_Witness ==
    /\ calls.staged > 0
    /\ Len(staged) = 2
    /\ staged[1].slide_images = <<>>
    /\ staged[1].slide_text_lines = <<>>
    /\ staged[2].slide_images # <<>>
    /\ WitnessBlocksIn(WrittenLines)

\* the files the archive's media give: images/<basename> for each
MediaFilesOf(arch) ==
    {ImagesDirName \o <<"/">> \o Basename(f) : f \in {g \in Range(arch.names) : StartsWith(g, PptMedia)}}

\* after a run the directory holds images/ with one file per media basename,
\* and slides.md, and nothing an earlier occupant left
CleanStaging ==
    calls.staged >= 1 =>
        /\ staging.dirs = {<<>>, ImagesDirName}
        /\ DOMAIN staging.files = MediaFilesOf(archive) \cup {SlidesMdName}
        /\ \A q \in DOMAIN staging.files : staging.files[q] # <<"stale">>

\* a run after the first leaves every file of the directory as it was
RerunChangesNothing == calls.staged >= 1 => staging' = staging

\* C13: staged extraction clears the output directory first and is idempotent:
\* after any number of runs on the same archive the directory holds exactly
\* images/ (a file per distinct media basename) and slides.md, with the same
\* bytes after every run, and no file from before the first run.
C13_StagedExtractionIdempotent == []CleanStaging /\ [][RerunChangesNothing]_vars

\* the extractor ran twice on an archive with two media files
C13_Witness ==
    /\ calls.staged = 2
    /\ Range(SelectIn(archive.names, {MediaA, MediaB})) = {MediaA, MediaB}
    /\ Cardinality(DOMAIN staging.files) = 3
    /\ staged # <<>>

----------------------------------------------------------------------------
(* parse_slides_md *)

Anchor == <<"d", "e", "m", "o", "/", "s", "l", "i", "d", "e", "s", "/">>
HeadingStart == <<"#", " ", "S", "l", "i", "d", "e">>
ImageItemStart == <<"-", " ", "!", "[", "]", "(">>
SeparatorLine == <<"-", "-", "-">>

\* os.path.dirname(p)
Dirname(p) ==
    LET slashes == {i \in 1..Len(p) : p[i] = "/"}
    IN  IF slashes = {} THEN <<>>
        ELSE LET head == SubSeq(p, 1, Max(slashes))
             IN  IF \A i \in 1..Len(head) : head[i] = "/" THEN head
                 ELSE SubSeq(head, 1, Max({i \in 1..Len(head) : head[i] # "/"}))

\* os.path.join(a, b)
PathJoin(a, b) ==
    IF b # <<>> /\ b[1] = "/" THEN b
    ELSE IF a = <<>> \/ a[Len(a)] = "/" THEN a \o b
    ELSE a \o <<"/">> \o b

\* s.split(sep)[1], for s that contains sep
SecondOfSplit(s, sep) ==
    LET after == SubSeq(s, Min(Occurrences(s, sep)) + Len(sep), Len(s))
    IN  IF Contains(after, sep) THEN SubSeq(after, 1, Min(Occurrences(after, sep)) - 1)
        ELSE after

RelBaseWholeDir(path) == Dirname(path)

\* md_dir = os.path.dirname(md_path); the part after "demo/slides/" if present, else md_dir
RelBase(path) ==
    LET md_dir == Dirname(path)
    IN  IF Contains(md_dir, Anchor) THEN SecondOfSplit(md_dir, Anchor) ELSE md_dir

NewSlide == [images |-> <<>>, content |-> <<>>]

ParseStepAnySection(st, base, raw) ==
    LET line == Strip(raw)
    IN  IF line = <<>> \/ line = SeparatorLine THEN st
        ELSE IF StartsWith(line, HeadingStart)
        THEN [slides        |-> IF st.current_slide # <<>>
                                THEN Append(st.slides, st.current_slide[1])
                                ELSE st.slides,
              current_slide |-> <<NewSlide>>,
              section       |-> "none"]
        ELSE IF StartsWith(line, ImagesHeading) THEN [st EXCEPT !.section = "images"]
        ELSE IF StartsWith(line, ContentHeading) THEN [st EXCEPT !.section = "content"]
        ELSE IF StartsWith(line, ImageItemStart)
        THEN IF st.current_slide # <<>> /\ st.section = "images"
             THEN LET img_path      == SubSeq(line, Len(ImageItemStart) + 1, Len(line) - 1)
                      full_rel_path == PathJoin(base, img_path)
                  IN  [st EXCEPT !.current_slide[1].images = Append(@, full_rel_path)]
             ELSE st
        ELSE IF StartsWith(line, ItemPrefix)
        THEN IF st.current_slide # <<>>
             THEN LET text == SubSeq(line, Len(ItemPrefix) + 1, Len(line))
                  IN  [st EXCEPT !.current_slide[1].content = Append(@, text)]
             ELSE st
        ELSE st

\* one pass of the loop over lines; st holds slides, current_slide and section
ParseStep(st, base, raw) ==
    LET line == Strip(raw)
    IN  IF line = <<>> \/ line = SeparatorLine THEN st
        ELSE IF StartsWith(line, HeadingStart)
        THEN [slides        |-> IF st.current_slide # <<>>
                                THEN Append(st.slides, st.current_slide[1])
                                ELSE st.slides,
              current_slide |-> <<NewSlide>>,
              section       |-> "none"]
        ELSE IF StartsWith(line, ImagesHeading) THEN [st EXCEPT !.section = "images"]
        ELSE IF StartsWith(line, ContentHeading) THEN [st EXCEPT !.section = "content"]
        ELSE IF StartsWith(line, ImageItemStart)
        THEN IF st.current_slide # <<>> /\ st.section = "images"
             THEN LET img_path      == SubSeq(line, Len(ImageItemStart) + 1, Len(line) - 1)
                      full_rel_path == PathJoin(base, img_path)
                  IN  [st EXCEPT !.current_slide[1].images = Append(@, full_rel_path)]
             ELSE st
        ELSE IF StartsWith(line, ItemPrefix)
        THEN IF st.current_slide # <<>> /\ st.section = "content"
             THEN LET text == SubSeq(line, Len(ItemPrefix) + 1, Len(line))
                  IN  [st EXCEPT !.current_slide[1].content = Append(@, text)]
             ELSE st
        ELSE st

----------------------------------------------------------------------------
(* Writing Slide Records to the intermediate file and parsing it back *)

ImageA == ImagesPrefix \o <<"a", ".", "p", "n", "g">>
ImageB == ImagesPrefix \o <<"b", ".", "p", "n", "g">>

ImagePaths == {ImageA, ImageB}

\* content lines as the data model has them: trimmed, with an alphanumeric character
ContentStrings ==
    { <<"Q", "3", " ", "2", "0", "2", "4">>,
      <<"!", "[", "]", "(", "a">>,
      <<"#", " ", "S", "l", "i", "d", "e", " ", "9">>,
      <<"a", "\n", "b">>,
      <<"a", "\n", "#", " ", "S", "l", "i", "d", "e", " ", "9">> }

DefaultRecord == [slide_images |-> <<ImageA>>, slide_text_lines |-> <<<<"Q", "3", " ", "2", "0", "2", "4">>>>]

SlideRecords ==
    {[slide_images |-> im, slide_text_lines |-> <<>>] : im \in SeqsUpTo(ImagePaths, MaxImages)}
    \cup {[slide_images |-> <<>>, slide_text_lines |-> tx] :
             tx \in SeqsUpTo(ContentStrings, MaxLines)}
    \cup {[slide_images |-> <<ImageB>>, slide_text_lines |-> tx] :
             tx \in SeqsUpTo(ContentStrings, 1)}

\* up to MaxRecords records; one is any record, the others the default
RecordSeqs ==
    {[k \in 1..n |-> IF k = v THEN r ELSE DefaultRecord] :
        n \in 0..MaxRecords, v \in 1..MaxRecords, r \in SlideRecords}

MdPaths ==
    { <<"d", "e", "m", "o", "/", "s", "l", "i", "d", "e", "s", "/", "s", "t", "/", "s", "l", "i", "d", "e", "s", ".", "m", "d">>,
      <<"s", "t", "/", "s", "l", "i", "d", "e", "s", ".", "m", "d">>,
      <<"s", "l", "i", "d", "e", "s", ".", "m", "d">>,
      <<"/", "x", "/", "d", "e", "m", "o", "/", "s", "l", "i", "d", "e", "s", "/", "s", "t", "/", "s", "l", "i", "d", "e", "s", ".", "m", "d">> }

MdInit ==
    /\ records \in RecordSeqs
    /\ md_path \in MdPaths
    /\ md_text = <<>>
    /\ lines = <<>>
    /\ pos = 0
    /\ slides = <<>>
    /\ current_slide = <<>>
    /\ section = "none"
    /\ rel_base = <<>>
    /\ phase = "records"
    /\ LocIdle
    /\ ExIdle
    /\ RnIdle
    /\ BtIdle

\* with open(os.path.join(staging_dir, "slides.md"), "w") as f: f.write("\n".join(md_output))
write_slides_md ==
    /\ phase = "records"
    /\ md_text' = MdText(records)
    /\ phase' = "written"
    /\ UNCHANGED <<records, md_path, lines, pos, slides, current_slide, section, rel_base>>
    /\ UNCHANGED <<locVars, exVars, rnVars, btVars>>

\* parse_slides_md up to the loop: the lines are read and rel_base is computed
parse_open ==
    /\ phase = "written"
    /\ lines' = ReadLines(md_text)
    /\ rel_base' = RelBase(md_path)
    /\ slides' = <<>>
    /\ current_slide' = <<>>
    /\ section' = "none"
    /\ pos' = 1
    /\ phase' = "parsing"
    /\ UNCHANGED <<records, md_path, md_text>>
    /\ UNCHANGED <<locVars, exVars, rnVars, btVars>>

\* one pass of: for line in lines
parse_line ==
    /\ phase = "parsing"
    /\ pos <= Len(lines)
    /\ LET st == ParseStep([slides |-> slides, current_slide |-> current_slide,
                            section |-> section], rel_base, lines[pos])
       IN  /\ slides' = st.slides
           /\ current_slide' = st.current_slide
           /\ section' = st.section
    /\ pos' = pos + 1
    /\ UNCHANGED <<records, md_path, md_text, lines, rel_base, phase>>
    /\ UNCHANGED <<locVars, exVars, rnVars, btVars>>

\* if current_slide: slides.append(current_slide); return slides
parse_return ==
    /\ phase = "parsing"
    /\ pos > Len(lines)
    /\ slides' = IF current_slide # <<>> THEN Append(slides, current_slide[1]) ELSE slides
    /\ phase' = "returned"
    /\ UNCHANGED <<records, md_path, md_text, lines, pos, current_slide, section, rel_base>>
    /\ UNCHANGED <<locVars, exVars, rnVars, btVars>>

MdNext == write_slides_md \/ parse_open \/ parse_line \/ parse_return

SpecMd == MdInit /\ [][MdNext]_vars

----------------------------------------------------------------------------
(* Claims about the round trip through the intermediate file *)

\* C4: the parsed records are as many as the written ones and each has the
\* content of the record it was written from, same strings in the same order.
C4_ContentRoundTrip ==
    phase = "returned" =>
        /\ Len(slides) = Len(records)
        /\ \A i \in 1..Len(records) : slides[i].content = records[i].slide_text_lines

\* the directory of the intermediate file: the path up to its last separator
DirectoryOf(path) ==
    LET slashes == {i \in 1..Len(path) : path[i] = "/"}
    IN  IF slashes = {} THEN <<>> ELSE SubSeq(path, 1, Max(slashes) - 1)

\* the part of the directory after the anchor, the whole directory without it
RebasingPrefix(path) ==
    LET dir == DirectoryOf(path)
        at  == {i \in 1..Len(dir) : StartsWithAt(dir, Anchor, i)}
    IN  IF at = {} THEN dir ELSE SubSeq(dir, Min(at) + Len(Anchor), Len(dir))

Rebased(path, img) ==
    IF RebasingPrefix(path) = <<>> THEN img ELSE RebasingPrefix(path) \o <<"/">> \o img

\* C5: each parsed record has the images of the record it was written from,
\* in order, each joined onto the rebasing prefix of the intermediate file.
C5_ImagesRoundTrip ==
    phase = "returned" =>
        /\ Len(slides) = Len(records)
        /\ \A i \in 1..Len(records) :
               slides[i].images =
                   [k \in 1..Len(records[i].slide_images) |->
                       Rebased(md_path, records[i].slide_images[k])]

----------------------------------------------------------------------------
(* Themes and the renderers *)

\* the keys of the themes dictionary of get_theme_css
ThemeNames == {"cyberpunk", "blue", "light", "blueprint", "dracula", "christmas"}

\* themes: every key has a CSS block of its own
ThemeBlock(name) == <<"css block of", name>>

get_theme_css_default_blue(t) ==
    IF t \in ThemeNames THEN ThemeBlock(t) ELSE ThemeBlock("blue")

\* return themes.get(theme, themes["cyberpunk"])
get_theme_css(t) ==
    IF t \in ThemeNames THEN ThemeBlock(t) ELSE ThemeBlock("cyberpunk")

SlideLabel == <<"S", "l", "i", "d", "e", " ">>

\* a <section> of a document: its layout and what it shows
Section(layout, images, title, bullets, bg_color) ==
    [layout |-> layout, images |-> images, title |-> title, bullets |-> bullets,
     bg_color |-> bg_color]

RenderSlideNoGrid(i, slide, t) ==
    LET images  == slide.images
        content == slide.content
    IN  IF images # <<>> /\ content = <<>>
        THEN Section("background", <<images[1]>>, <<>>, <<>>,
                     IF t = "christmas" THEN "transparent" ELSE "var(--bg-dark)")
        ELSE IF content # <<>> /\ images = <<>>
        THEN Section("text", <<>>, content[1], Tail(content), "")
        ELSE Section("split", images, IF content # <<>> THEN content[1] ELSE <<>>,
                     IF Len(content) > 1 THEN Tail(content) ELSE <<>>, "")

\* render_deck.generate_html, one pass of the loop over slides (i counts from 0)
RenderSlide(i, slide, t) ==
    LET images  == slide.images
        content == slide.content
    IN  IF images # <<>> /\ content = <<>>
        THEN IF Len(images) = 1
             THEN Section("background", <<images[1]>>, <<>>, <<>>,
                          IF t = "christmas" THEN "transparent" ELSE "var(--bg-dark)")
             ELSE Section("grid", images, <<>>, <<>>, "")
        ELSE IF content # <<>> /\ images = <<>>
        THEN Section("text", <<>>,
                     IF content # <<>> THEN content[1] ELSE SlideLabel \o IntToStr(i + 1),
                     IF Len(content) > 1 THEN Tail(content) ELSE <<>>, "")
        ELSE Section("split", images,
                     IF content # <<>> THEN content[1] ELSE <<>>,
                     IF Len(content) > 1 THEN Tail(content) ELSE <<>>, "")

\* the literal that the last statement of render_deck.generate_html replaces
SlidesContentLiteral == <<"{", "s", "l", "i", "d", "e", "s", "_", "c", "o", "n", "t", "e", "n", "t", "}">>

\* how often the literal stands in what a section shows
LiteralCount(sec) ==
    LET shown == sec.images \o <<sec.title>> \o sec.bullets
    IN  Len(Concat([k \in 1..Len(shown) |->
                       [m \in 1..Cardinality(Occurrences(shown[k], SlidesContentLiteral)) |-> k]]))

RECURSIVE Repeat(_, _)
Repeat(seq, k) == IF k = 0 THEN <<>> ELSE seq \o Repeat(seq, k - 1)

\* html_template.replace("{slides_content}", slides_html): the <section>
\* elements of the text written, in document order; the template's own title
\* section comes before {slides_html}
TemplateReplaced(title_section, slides_html) ==
    <<title_section>>
        \o Concat([i \in 1..Len(slides_html) |->
                      <<slides_html[i]>> \o Repeat(slides_html, LiteralCount(slides_html[i]))])

\* render_deck.generate_html: the document written to output_file
RenderDeck(slide_list, t) ==
    [title_section |-> "deck_title",
     document      |-> TemplateReplaced(
                           Section("title", <<>>, <<"d", "e", "c", "k", "_", "t", "i", "t", "l", "e">>, <<>>, ""),
                           [i \in 1..Len(slide_list) |-> RenderSlide(i - 1, slide_list[i], t)]),
     sections      |-> [i \in 1..Len(slide_list) |-> RenderSlide(i - 1, slide_list[i], t)],
     theme_css     |-> get_theme_css(t),
     base_theme    |-> IF t \in {"light", "christmas"} THEN "white" ELSE "black",
     overlay       |-> t = "christmas"]

\* generate_decks.generate_html, one pass of the loop over raw_slides (i counts from 0)
BatchRenderSlide(i, slide_lines) ==
    IF slide_lines # <<>>
    THEN Section("titled", <<>>, slide_lines[1], Tail(slide_lines), "")
    ELSE Section("placeholder", <<>>, SlideLabel \o IntToStr(i + 1), <<>>, "")

\* generate_decks.generate_html: the sections of the document written
BatchRenderDeck(raw_slides) ==
    [sections |-> [i \in 1..Len(raw_slides) |-> BatchRenderSlide(i - 1, raw_slides[i])]]

----------------------------------------------------------------------------
(* Rendering runs *)

ContentTitle == <<"T", "i", "t", "l", "e">>
ContentPoint == <<"P", "o", "i", "n", "t", " ", "1">>

RenderTexts == {ContentTitle, ContentPoint, SlidesContentLiteral}

DefaultSlide == [images |-> <<ImageA>>, content |-> <<ContentTitle, ContentPoint>>]

ParsedSlides ==
    {[images |-> im, content |-> tx] :
        im \in SeqsUpTo(ImagePaths, MaxImages), tx \in SeqsUpTo(RenderTexts, MaxLines)}

\* up to MaxRecords slides; one is any slide, the others the default
Decks ==
    {[k \in 1..n |-> IF k = v THEN r ELSE DefaultSlide] :
        n \in 0..MaxRecords, v \in 1..MaxRecords, r \in ParsedSlides}

\* the identifiers of the themes dictionary and some outside it
ThemeArguments == ThemeNames \cup {"matrix", "Cyberpunk", ""}

RnInit ==
    /\ deck \in Decks
    /\ theme \in ThemeArguments
    /\ html = <<>>
    /\ batch_html = <<>>
    /\ LocIdle
    /\ ExIdle
    /\ MdIdle
    /\ BtIdle

\* render_deck.generate_html(slides, output_file, theme, deck_title)
generate_html ==
    /\ html = <<>>
    /\ html' = <<RenderDeck(deck, theme)>>
    /\ UNCHANGED <<deck, theme, batch_html>>
    /\ UNCHANGED <<locVars, exVars, mdVars, btVars>>

\* generate_decks.generate_html(deck_config), from the slides' lines on
batch_generate_html ==
    /\ batch_html = <<>>
    /\ batch_html' = <<BatchRenderDeck([i \in 1..Len(deck) |-> deck[i].content])>>
    /\ UNCHANGED <<deck, theme, html>>
    /\ UNCHANGED <<locVars, exVars, mdVars, btVars>>

RnNext == generate_html \/ batch_generate_html

SpecRender == RnInit /\ [][RnNext]_vars

----------------------------------------------------------------------------
(* Claims about the renderer *)

C8_EmptyRecordPlaceholder ==
    html # <<>> =>
        \A i \in 1..Len(deck) :
            (deck[i].images = <<>> /\ deck[i].content = <<>>) =>
                /\ html[1].sections[i].layout = "placeholder"
                /\ html[1].sections[i].title = SlideLabel \o IntToStr(i)

EnumeratedThemes == {"cyberpunk", "blue", "light", "blueprint", "dracula", "christmas"}

\* C9: the document written under a theme outside the enumerated set carries
\* the CSS block of cyberpunk; under a theme inside the set it carries the
\* theme's own block, and the blocks of two themes differ.
C9_ThemeFallback ==
    /\ \A a, b \in EnumeratedThemes : a # b => ThemeBlock(a) # ThemeBlock(b)
    /\ html # <<>> =>
           html[1].theme_css =
               IF theme \in EnumeratedThemes THEN ThemeBlock(theme) ELSE ThemeBlock("cyberpunk")

\* a deck rendered under an identifier outside the set
C9_Witness ==
    /\ theme = "matrix"
    /\ html # <<>>
    /\ html[1].theme_css = ThemeBlock("cyberpunk")

----------------------------------------------------------------------------
(* The batch deck generator and the preview extractor on files *)

\* DECKS: the deck configurations, in list order
NumDecks == 5

DECKS == 1..NumDecks

NoArchive == [names |-> <<>>, paragraphs |-> <<>>, targets |-> <<>>]

\* what a source path can hold: nothing, a file that is no zip archive, or an
\* archive some of whose entries cannot be read or decoded
AbsentFile == [kind |-> "absent", arch |-> NoArchive, unreadable |-> {}]
MalformedFile == [kind |-> "malformed", arch |-> NoArchive, unreadable |-> {}]

ArchiveFile(arch, unreadable) == [kind |-> "archive", arch |-> arch, unreadable |-> unreadable]

\* the slides read before the first z.read(...).decode(...) that raises
ReadableCount(slide_files, unreadable) ==
    Min({i \in 1..Len(slide_files) : slide_files[i] \in unreadable} \cup {Len(slide_files) + 1}) - 1

ExtractSlidesAllOrNothing(file) ==
    IF file.kind # "archive" THEN <<>>
    ELSE LET slide_files == BatchLocate(file.arch.names)
             n           == ReadableCount(slide_files, file.unreadable)
         IN  IF n < Len(slide_files) THEN <<>> ELSE BatchRun(file.arch)

\* generate_decks.extract_slides(pptx_path): [] for a missing file; otherwise
\* slides_data as far as it was filled when an exception was caught
ExtractSlides(file) ==
    IF file.kind = "absent" THEN <<>>
    ELSE IF file.kind = "malformed" THEN <<>>
    ELSE LET slide_files == BatchLocate(file.arch.names)
             n           == ReadableCount(slide_files, file.unreadable)
         IN  [i \in 1..n |-> BatchSlideLines(file.arch.paragraphs[slide_files[i]])]

\* " ".join(text_matches)
RECURSIVE JoinSpaces(_)
JoinSpaces(texts) ==
    IF texts = <<>> THEN <<>>
    ELSE IF Len(texts) = 1 THEN texts[1]
    ELSE texts[1] \o <<" ">> \o JoinSpaces(Tail(texts))

\* re.findall(r'<a:t[^>]*>(.*?)</a:t>', xml_content): the texts of all paragraphs
RECURSIVE AllTexts(_)
AllTexts(paragraphs) ==
    IF paragraphs = <<>> THEN <<>> ELSE Head(paragraphs) \o AllTexts(Tail(paragraphs))

\* extract_pptx_content(filepath): a message for a missing file, [] when an
\* exception was caught, else one string per slide
ExtractPptxContent(file) ==
    IF file.kind = "absent"
    THEN [is_list |-> FALSE, value |-> <<"Error: File not found">>]
    ELSE IF file.kind = "malformed"
    THEN [is_list |-> TRUE, value |-> <<>>]
    ELSE LET slide_files == PreviewLocate(file.arch.names)
             n           == ReadableCount(slide_files, file.unreadable)
         IN  [is_list |-> TRUE,
              value   |-> IF n < Len(slide_files) THEN <<>>
                          ELSE [i \in 1..n |->
                                   JoinSpaces(AllTexts(file.arch.paragraphs[slide_files[i]]))]]

----------------------------------------------------------------------------
(* Batch runs *)

BlankPayload == [paragraphs |-> <<ParaBlank>>, has_rels |-> FALSE, targets |-> <<>>]

BatchArchives ==
    {MakeArchive(<<>>, payloads) : payloads \in SeqsUpTo({DefaultPayload, BlankPayload}, MaxSlides)}

SlidePartsOf(arch) == {f \in Range(arch.names) : BatchSlideMatch(f)}

\* at most one slide part of an archive is unreadable
Files ==
    {AbsentFile, MalformedFile}
    \cup {ArchiveFile(a, {}) : a \in BatchArchives}
    \cup UNION {{ArchiveFile(a, {f}) : f \in SlidePartsOf(a)} : a \in BatchArchives}

DefaultFile == ArchiveFile(MakeArchive(<<>>, <<DefaultPayload>>), {})

StaleDocument == [sections |-> <<Section("stale", <<>>, <<>>, <<>>, "")>>]

\* one deck's source is any file, the others are all absent or all the default
\* archive; the output paths are all absent or all left by an earlier run
BtInit ==
    /\ \E v \in DECKS, f \in Files, other \in {AbsentFile, DefaultFile} :
           pptx_files = [d \in DECKS |-> IF d = v THEN f ELSE other]
    /\ output_files \in {[d \in DECKS |-> <<>>], [d \in DECKS |-> <<StaleDocument>>]}
    /\ output_before = output_files
    /\ deck_index = 1
    /\ extracted = [d \in DECKS |-> <<>>]
    /\ preview = <<>>
    /\ LocIdle
    /\ ExIdle
    /\ MdIdle
    /\ RnIdle

\* generate_decks.__main__, one pass of the loop: generate_html(deck)
generate_decks_main ==
    /\ deck_index \in DECKS
    /\ LET slides_found == ExtractSlides(pptx_files[deck_index])
       IN  /\ extracted' = [extracted EXCEPT ![deck_index] = <<slides_found>>]
           /\ output_files' = [output_files EXCEPT ![deck_index] = <<BatchRenderDeck(slides_found)>>]
    /\ deck_index' = deck_index + 1
    /\ UNCHANGED <<pptx_files, output_before, preview>>
    /\ UNCHANGED <<locVars, exVars, mdVars, rnVars>>

\* extract_pptx.__main__: extract_pptx_content(sys.argv[1]) on one of the files
extract_pptx_content ==
    /\ preview = <<>>
    /\ \E d \in DECKS :
           preview' = <<[file |-> pptx_files[d], result |-> ExtractPptxContent(pptx_files[d])]>>
    /\ UNCHANGED <<pptx_files, output_files, output_before, deck_index, extracted>>
    /\ UNCHANGED <<locVars, exVars, mdVars, rnVars>>

BtNext == generate_decks_main \/ extract_pptx_content

SpecBatch == BtInit /\ [][BtNext]_vars

\* what every pass of the loop does to the loop position; generate_decks_main is
\* the only action that moves it
LoopAdvances == deck_index \in DECKS /\ deck_index' = deck_index + 1

\* the for loop of __main__ runs on as long as a deck is left
SpecBatchFair == BtInit /\ [][BtNext]_vars /\ WF_deck_index(LoopAdvances)

----------------------------------------------------------------------------
(* Claims about the batch generator and the guarded extraction routines *)

Handled == 1..(deck_index - 1)

\* C11: a deck whose source file is absent is skipped: its output path holds
\* after the run what it held before (not created, not overwritten), and every
\* deck whose source exists has its document written.
C11_AbsentSourceSkipped ==
    \A d \in Handled :
        IF pptx_files[d].kind = "absent"
        THEN output_files[d] = output_before[d]
        ELSE output_files[d] = <<BatchRenderDeck(extracted[d][1])>>

\* the file cannot be opened as an archive, or a slide part of it cannot be read
Failing(file) ==
    \/ file.kind = "malformed"
    \/ file.kind = "archive" /\ file.unreadable \cap SlidePartsOf(file.arch) # {}

EmptyList == [is_list |-> TRUE, value |-> <<>>]

PreviewOfFailingIsEmpty ==
    (preview # <<>> /\ Failing(preview[1].file)) => preview[1].result = EmptyList

\* each deck handled has its extraction result and its document written
HandledDecksWritten ==
    \A d \in Handled : extracted[d] # <<>> /\ output_files[d] # output_before[d]

\* the loop has gone through the whole list
AllDecksHandled == deck_index = NumDecks + 1

\* C15 as stated: for a malformed archive or an unreadable slide entry the
\* guarded routines return the empty list, and the batch generator goes on to
\* the later decks.
C15_FailureGivesEmptyList ==
    /\ [](/\ \A d \in Handled : Failing(pptx_files[d]) => extracted[d] = <<<<>>>>
          /\ PreviewOfFailingIsEmpty
          /\ HandledDecksWritten)
    /\ <>AllDecksHandled

\* the slides standing before the first unreadable one, with their lines
SlidesBeforeFailure(file) ==
    IF file.kind = "malformed" THEN <<>>
    ELSE LET located == BatchLocate(file.arch.names)
             k       == CHOOSE i \in 1..Len(located) :
                            /\ located[i] \in file.unreadable
                            /\ \A j \in 1..(i - 1) : located[j] \notin file.unreadable
         IN  SubSeq(BatchRun(file.arch), 1, k - 1)

\* C15 amended: extract_pptx_content returns the empty list; extract_slides
\* returns the slides read before the failure (none for a file that is no
\* archive); the batch generator goes on to the later decks.
C15_FailureGivesSlidesReadSoFar ==
    /\ [](/\ \A d \in Handled :
                 Failing(pptx_files[d]) => extracted[d] = <<SlidesBeforeFailure(pptx_files[d])>>
          /\ PreviewOfFailingIsEmpty
          /\ HandledDecksWritten)
    /\ <>AllDecksHandled

\* the whole list was handled; one deck's second slide was unreadable and its
\* first slide was kept; the preview of that file gave the empty list
C15_Witness ==
    /\ deck_index = NumDecks + 1
    /\ \E d \in 1..(NumDecks - 1) :
           /\ pptx_files[d].kind = "archive"
           /\ pptx_files[d].unreadable = {SlidePart(2)}
           /\ Len(extracted[d][1]) = 1
           /\ preview = <<[file |-> pptx_files[d], result |-> EmptyList]>>
    /\ \A d \in DECKS : output_files[d] # <<>>

----------------------------------------------------------------------------
(* parse_slides_md on files of any lines *)

InputLines ==
    { <<"#", " ", "S", "l", "i", "d", "e", " ", "1">>,
      <<" ", " ", "#", " ", "S", "l", "i", "d", "e", "s", " ", " ">>,
      <<"#", "#", " ", "I", "m", "a", "g", "e", "s">>,
      <<"#", "#", " ", "C", "o", "n", "t", "e", "n", "t">>,
      <<"-", " ", "!", "[", "]", "(", "i", "m", "a", "g", "e", "s", "/", "a", ".", "p", "n", "g", ")">>,
      <<"-", " ", "Q", "3", " ", "2", "0", "2", "4">>,
      <<>>,
      <<"-", "-", "-">> }

\* a file of up to MaxInputLines lines, each with its terminator
InputTexts ==
    {Concat([i \in 1..Len(ls) |-> ls[i] \o <<"\n">>]) : ls \in SeqsUpTo(InputLines, MaxInputLines)}

InputPath == <<"s", "t", "/", "s", "l", "i", "d", "e", "s", ".", "m", "d">>

ParseInit ==
    /\ records = <<>>
    /\ md_path = InputPath
    /\ md_text \in InputTexts
    /\ lines = <<>>
    /\ pos = 0
    /\ slides = <<>>
    /\ current_slide = <<>>
    /\ section = "none"
    /\ rel_base = <<>>
    /\ phase = "written"
    /\ LocIdle
    /\ ExIdle
    /\ RnIdle
    /\ BtIdle

ParseNext == parse_open \/ parse_line \/ parse_return

SpecParse == ParseInit /\ [][ParseNext]_vars

----------------------------------------------------------------------------
(* Claims about the scan of parse_slides_md *)

IsHeadingLine(raw) == StartsWith(Strip(raw), HeadingStart)

IsImageItemLine(raw) == StartsWith(Strip(raw), ImageItemStart)

IsTextItemLine(raw) == StartsWith(Strip(raw), ItemPrefix) /\ ~IsImageItemLine(raw)

IsIgnoredLine(raw) == Strip(raw) = <<>> \/ Strip(raw) = SeparatorLine

\* the records known so far: those closed and the one open
RecordsSoFar == slides \o current_slide

\* what one pass of the loop may do, by the kind of the line it reads
ScanStep ==
    (phase = "parsing" /\ pos' = pos + 1) =>
        LET raw == lines[pos]
        IN  /\ IsHeadingLine(raw) =>
                   /\ current_slide' = <<NewSlide>>
                   /\ section' = "none"
                   /\ slides' = RecordsSoFar
            /\ ~IsHeadingLine(raw) =>
                   /\ slides' = slides
                   /\ Len(current_slide') = Len(current_slide)
                   /\ current_slide # <<>> =>
                          LET before == current_slide[1]
                              after  == current_slide'[1]
                          IN  /\ after.images # before.images =>
                                     /\ IsImageItemLine(raw)
                                     /\ section = "images"
                                     /\ Len(after.images) = Len(before.images) + 1
                                     /\ SubSeq(after.images, 1, Len(before.images)) = before.images
                                     /\ after.content = before.content
                              /\ after.content # before.content =>
                                     /\ IsTextItemLine(raw)
                                     /\ section = "content"
                                     /\ after.content = Append(before.content,
                                            SubSeq(Strip(raw), Len(ItemPrefix) + 1, Len(Strip(raw))))
                                     /\ after.images = before.images
                              /\ (IsImageItemLine(raw) /\ section = "images") =>
                                     Len(after.images) = Len(before.images) + 1
                              /\ (IsTextItemLine(raw) /\ section = "content") =>
                                     Len(after.content) = Len(before.content) + 1
            /\ IsIgnoredLine(raw) => UNCHANGED <<slides, current_slide, section>>

HeadingCount == Cardinality({i \in 1..Len(lines) : IsHeadingLine(lines[i])})

\* C14: while scanning any lines, parse_slides_md opens a record at each heading
\* line and resets the section; appends an image item only to the open record's
\* images and only in the Images section; appends a text item only to the open
\* record's content and only in the Content section; leaves everything as it is
\* at blank and "---" lines; and returns as many records as there were headings.
C14_ScanInvariants ==
    /\ [][ScanStep]_vars
    /\ [](phase = "returned" => Len(slides) = HeadingCount)

\* a file whose item line comes before any heading, then a heading, the Content
\* section and a text item: one record with one content line is returned
C14_Witness ==
    /\ phase = "returned"
    /\ Len(lines) = 4
    /\ IsTextItemLine(lines[1])
    /\ IsHeadingLine(lines[2])
    /\ Len(slides) = 1
    /\ Len(slides[1].content) = 1
    /\ slides[1].images = <<>>

----------------------------------------------------------------------------
(* Claims about the sections of the documents *)

\* C16: rendering keeps the number and the order of the slides: the staged
\* renderer's document holds its title section and then one section per record,
\* in record order; the batch generator's document holds one section per record,
\* in record order.
C16_OneSectionPerRecord ==
    /\ html # <<>> =>
           /\ Len(html[1].document) = 1 + Len(deck)
           /\ html[1].document[1].layout = "title"
           /\ \A i \in 1..Len(deck) : html[1].document[i + 1] = html[1].sections[i]
    /\ batch_html # <<>> =>
           /\ Len(batch_html[1].sections) = Len(deck)
           /\ \A i \in 1..Len(deck) :
                  IF deck[i].content = <<>>
                  THEN batch_html[1].sections[i].layout = "placeholder"
                  ELSE batch_html[1].sections[i].title = deck[i].content[1]

====
